---- MODULE Spec2Model ----
(***************************************************************************)
(* A model of github.com/adrg/check: the runner (check.go), the reflection *)
(* helpers and validation units (reflect.go) and the comparison engine     *)
(* (the package-internal part of examples_test.go, lines 440-691).         *)
(*                                                                         *)
(* A Go value held in an interface{} is a record:                          *)
(*   k     reflect.Kind of the value ("invalid" for the nil interface)     *)
(*   t     its dynamic type                                                *)
(*   n     the number it holds: an integer, a float (when nan is FALSE),   *)
(*         a bool as 0/1, the instant of a time.Time, the number of        *)
(*         buffered elements of a channel                                  *)
(*   nan   a float that is NaN                                             *)
(*   isnil a nil slice, map, pointer, func or channel (and the nil         *)
(*         interface itself)                                               *)
(*   id    the address a slice, map, pointer, func or channel refers to,   *)
(*         the *Location of a time.Time; 0 when there is none              *)
(*   s     the bytes of a string                                           *)
(*   e     the elements of a slice or array, the values of a map (keyed    *)
(*         1..Len), the fields of a struct, the pointee of a pointer       *)
(***************************************************************************)
EXTENDS Integers, Sequences, FiniteSets, TLC

\* ------------------------------------------------------------------ bounds
\* Integers range over -MaxInt..MaxInt, unsigned integers over 0..MaxInt.
MaxInt == 1
\* Pointer chains are at most MaxDepth pointers deep.
MaxDepth == 2
\* Run is given at most MaxVfs units.
MaxVfs == 3
\* Required is given at most MaxArgs arguments.
MaxArgs == 2
\* In and NotIn are given at most MaxElems candidates.
MaxElems == 2
\* A caller evaluates at most MaxCalls comparison units over one (x, term).
MaxCalls == 2

\* --------------------------------------------------------------- Go values
NilV ==
    [k |-> "invalid", t |-> "nil", n |-> 0, nan |-> FALSE, isnil |-> TRUE,
     id |-> 0, s |-> << >>, e |-> << >>]

NumV(typ, num) == [NilV EXCEPT !.k = typ, !.t = typ, !.n = num, !.isnil = FALSE]
NaNV(typ) == [NilV EXCEPT !.k = typ, !.t = typ, !.nan = TRUE, !.isnil = FALSE]
StrV(bytes) == [NilV EXCEPT !.k = "string", !.t = "string", !.s = bytes, !.isnil = FALSE]
BoolV(num) == [NilV EXCEPT !.k = "bool", !.t = "bool", !.n = num, !.isnil = FALSE]
TimeV(instant, loc) ==
    [NilV EXCEPT !.k = "struct", !.t = "time.Time", !.n = instant, !.id = loc,
                 !.isnil = FALSE]
StructV(typ, fields) == [NilV EXCEPT !.k = "struct", !.t = typ, !.e = fields, !.isnil = FALSE]
ArrayV(typ, elts) == [NilV EXCEPT !.k = "array", !.t = typ, !.e = elts, !.isnil = FALSE]
SliceV(typ, addr, elts) ==
    [NilV EXCEPT !.k = "slice", !.t = typ, !.id = addr, !.e = elts, !.isnil = FALSE]
MapV(typ, addr, elts) ==
    [NilV EXCEPT !.k = "map", !.t = typ, !.id = addr, !.e = elts, !.isnil = FALSE]
PtrV(addr, pointee) ==
    [NilV EXCEPT !.k = "ptr", !.t = "*" \o pointee.t, !.id = addr, !.e = <<pointee>>,
                 !.isnil = FALSE]
FuncV(addr) == [NilV EXCEPT !.k = "func", !.t = "func()", !.id = addr, !.isnil = FALSE]
ChanV(addr, buffered) ==
    [NilV EXCEPT !.k = "chan", !.t = "chan int", !.id = addr, !.n = buffered, !.isnil = FALSE]
\* The nil value of a slice, map, pointer, func or channel type.
NilOf(kind, typ) == [NilV EXCEPT !.k = kind, !.t = typ]

SignedKinds == {"int", "int8", "int16", "int32", "int64"}
UnsignedKinds == {"uint", "uint8", "uint16", "uint32", "uint64"}
FloatKinds == {"float32", "float64"}

\* ------------------------------------------------ the values drawn as inputs
RECURSIVE PtrChain(_, _, _)
\* depth pointers stacked on base, the outermost at address addr + depth.
PtrChain(depth, addr, base) ==
    IF depth = 0 THEN base ELSE PtrV(addr + depth, PtrChain(depth - 1, addr, base))

Signed == {NumV("int", num) : num \in -MaxInt..MaxInt} \cup {NumV("int8", -MaxInt)}
Unsigned == {NumV("uint", num) : num \in 0..MaxInt} \cup {NumV("uint8", MaxInt)}
\* Floats are counted in halves, which float32 and float64 both hold exactly.
Floats ==
    {NumV("float64", 0), NumV("float64", MaxInt), NumV("float32", MaxInt), NaNV("float64")}
Strings == {StrV(<< >>), StrV(<<97>>), StrV(<<97, 98>>), StrV(<<98>>)}
\* The zero time.Time, and a later instant in two locations.
Times == {TimeV(0, 0), TimeV(1, 1), TimeV(1, 2)}
Bools == {BoolV(0), BoolV(1)}
Slices ==
    {NilOf("slice", "[]string"), SliceV("[]string", 10, << >>),
     SliceV("[]string", 11, <<StrV(<< >>)>>), SliceV("[]string", 12, <<StrV(<< >>)>>),
     SliceV("[]float64", 13, <<NaNV("float64")>>)}
Arrays ==
    {ArrayV("[0]int", << >>), ArrayV("[2]int", <<NumV("int", 0), NumV("int", 0)>>),
     ArrayV("[2]int", <<NumV("int", 0), NumV("int", 1)>>)}
Maps ==
    {NilOf("map", "map[int]int"), MapV("map[int]int", 20, << >>),
     MapV("map[int]int", 21, <<NumV("int", 1)>>)}
Structs ==
    {StructV("Point", <<NumV("float64", 0)>>), StructV("Point", <<NumV("float64", 1)>>),
     StructV("Point", <<NaNV("float64")>>)}
Funcs == {NilOf("func", "func()"), FuncV(30)}
Chans == {NilOf("chan", "chan int"), ChanV(40, 0), ChanV(41, 1)}
Pointers ==
    UNION {{PtrChain(depth, 50, StrV(<< >>)), PtrChain(depth, 60, StrV(<<97>>)),
            PtrChain(depth - 1, 70, NilOf("ptr", "*string"))} : depth \in 1..MaxDepth}

Scalars == Signed \cup Unsigned \cup Floats \cup Strings \cup Times
Structurals ==
    {NilV} \cup Bools \cup Slices \cup Arrays \cup Maps \cup Structs \cup Funcs \cup Chans
           \cup Pointers
Values == Scalars \cup Structurals

\* ------------------------------------------------------------------ errors
\* An error is the text of its message: the kind of message and what it
\* interpolates. kind "nil" is the nil error.
Err(kind, op, cat, what, xv, tv) ==
    [kind |-> kind, op |-> op, cat |-> cat, what |-> what, x |-> xv, term |-> tv]
NoErr == Err("nil", 0, "", "", NilV, NilV)
\* errors.New("empty argument")
errEmpty == Err("empty", 0, "", "", NilV, NilV)
\* "cannot convert nil to type <cat>" and "cannot convert `<kind>` to type <cat>"
ConvErr(cat, what) == Err("conversion", 0, cat, what, NilV, NilV)
\* fmt.Errorf(cmpErrs[op], cmpOps[op], x, term)
CmpFailed(op, xv, tv) == Err("comparison failed", op, "", "", xv, tv)

\* ------------------------------------------------------- reflect.DeepEqual
RECURSIVE DeepEqual(_, _)
DeepEqual(a, b) ==
    LET Elems == Len(a.e) = Len(b.e)
                 /\ \A j \in 1..Len(a.e) : DeepEqual(a.e[j], b.e[j])
    IN  IF a.k = "invalid" \/ b.k = "invalid" THEN a.k = b.k
        ELSE IF a.t # b.t THEN FALSE
        ELSE CASE a.k \in {"array"} -> Elems
               [] a.k \in {"slice", "map"} ->
                    /\ a.isnil = b.isnil
                    /\ Len(a.e) = Len(b.e)
                    /\ (a.id = b.id \/ Elems)
               [] a.k = "ptr" ->
                    \/ a.id = b.id
                    \/ (~a.isnil /\ ~b.isnil /\ Elems)
               [] a.k = "struct" -> a.n = b.n /\ a.id = b.id /\ Elems
               [] a.k = "func" -> a.isnil /\ b.isnil
               [] a.k = "chan" -> a.id = b.id
               [] a.k \in FloatKinds -> ~a.nan /\ ~b.nan /\ a.n = b.n
               [] a.k = "string" -> a.s = b.s
               [] OTHER -> a.n = b.n

equal(a, b) == DeepEqual(a, b)

RECURSIVE Zero(_)
\* reflect.Zero(reflect.TypeOf(v)).Interface()
Zero(v) ==
    CASE v.k \in {"slice", "map", "ptr", "func", "chan"} -> NilOf(v.k, v.t)
      [] v.k \in {"struct", "array"} ->
            [v EXCEPT !.n = 0, !.id = 0, !.e = [j \in 1..Len(v.e) |-> Zero(v.e[j])]]
      [] v.k = "string" -> [v EXCEPT !.s = << >>]
      [] OTHER -> [v EXCEPT !.n = 0, !.nan = FALSE]

\* reflect.Value.Len of an array, channel, map, slice or string
VLen(v) == CASE v.k = "string" -> Len(v.s) [] v.k = "chan" -> v.n [] OTHER -> Len(v.e)

RECURSIVE isEmpty(_)
\* "true" or "false", or "panic": Value.Elem of a nil pointer is the zero
\* Value, whose Interface method panics.
isEmpty(v) ==
    IF v = NilV THEN "true"
    ELSE IF v.k \in {"array", "chan", "map", "slice", "string"}
         THEN (IF VLen(v) = 0 THEN "true" ELSE "false")
    ELSE IF v.k \in {"interface", "ptr"}
         THEN (IF v.isnil THEN "panic" ELSE isEmpty(v.e[1]))
    ELSE IF DeepEqual(v, Zero(v)) THEN "true" ELSE "false"

\* -------------------------------------------------------------- conversions
\* Each returns [v |-> the converted value, err |-> NoErr or the error].
toInt64(v) ==
    IF v = NilV THEN [v |-> NumV("int64", 0), err |-> ConvErr("int64", "nil")]
    ELSE IF v.k \in SignedKinds THEN [v |-> NumV("int64", v.n), err |-> NoErr]
    ELSE [v |-> NumV("int64", 0), err |-> ConvErr("int64", v.k)]

\* toUint64 that takes the signed kinds too.
toUint64AnyInteger(v) ==
    IF v = NilV THEN [v |-> NumV("uint64", 0), err |-> ConvErr("uint64", "nil")]
    ELSE IF v.k \in UnsignedKinds \cup SignedKinds
         THEN [v |-> NumV("uint64", v.n), err |-> NoErr]
    ELSE [v |-> NumV("uint64", 0), err |-> ConvErr("uint64", v.k)]

toUint64(v) ==
    IF v = NilV THEN [v |-> NumV("uint64", 0), err |-> ConvErr("uint64", "nil")]
    ELSE IF v.k \in UnsignedKinds THEN [v |-> NumV("uint64", v.n), err |-> NoErr]
    ELSE [v |-> NumV("uint64", 0), err |-> ConvErr("uint64", v.k)]

toFloat64(v) ==
    IF v = NilV THEN [v |-> NumV("float64", 0), err |-> ConvErr("float64", "nil")]
    ELSE IF v.k \in FloatKinds
         THEN [v |-> [v EXCEPT !.k = "float64", !.t = "float64"], err |-> NoErr]
    ELSE [v |-> NumV("float64", 0), err |-> ConvErr("float64", v.k)]

toString(v) ==
    IF v = NilV THEN [v |-> StrV(<< >>), err |-> ConvErr("string", "nil")]
    ELSE IF v.k = "string" THEN [v |-> StrV(v.s), err |-> NoErr]
    ELSE [v |-> StrV(<< >>), err |-> ConvErr("string", v.k)]

\* The type assertion x.(time.Time) looks at the dynamic type, not the kind.
toTime(v) ==
    IF v = NilV THEN [v |-> TimeV(0, 0), err |-> ConvErr("time.Time", "nil")]
    ELSE IF v.t = "time.Time" THEN [v |-> v, err |-> NoErr]
    ELSE [v |-> TimeV(0, 0), err |-> ConvErr("time.Time", v.t)]

\* ------------------------------------------------------- comparison engine
eq == 1
ne == 2
lt == 3
lte == 4
gt == 5
gte == 6
Ops == {eq, ne, lt, lte, gt, gte}
cmpOps == [o \in Ops |-> <<"eq", "ne", "lt", "lte", "gt", "gte">>[o]]

\* "invalid comparison operator `<op>`"
InvalidOp(op) == Err("invalid operator", op, "", "", NilV, NilV)
\* A *cmpField: nil, or a pointer to {op, term}.
NilCmp == [isnil |-> TRUE, op |-> 0, term |-> NilV]

\* Returns [cmp |-> the *cmpField, err |-> NoErr or the error].
newCmpField(op, tv) ==
    IF op < eq \/ op > gte THEN [cmp |-> NilCmp, err |-> InvalidOp(op)]
    ELSE [cmp |-> [isnil |-> FALSE, op |-> op, term |-> tv], err |-> NoErr]

\* The operator switch over two int64 or two uint64; ok starts false.
NumOk(op, a, b) ==
    CASE op = eq -> a = b
      [] op = ne -> a # b
      [] op = lt -> a < b
      [] op = lte -> a <= b
      [] op = gt -> a > b
      [] op = gte -> a >= b
      [] OTHER -> FALSE

compareInt64(xv, cmp) ==
    LET term == toInt64(cmp.term)
    IN  IF term.err # NoErr THEN term.err
        ELSE IF ~NumOk(cmp.op, xv.n, term.v.n) THEN CmpFailed(cmp.op, xv, term.v)
        ELSE NoErr

compareUint64(xv, cmp) ==
    LET term == toUint64(cmp.term)
    IN  IF term.err # NoErr THEN term.err
        ELSE IF ~NumOk(cmp.op, xv.n, term.v.n) THEN CmpFailed(cmp.op, xv, term.v)
        ELSE NoErr

\* FloatOk with != as "ordered and different": false for a NaN.
FloatOkOrderedNe(op, a, b) ==
    LET ordered == ~a.nan /\ ~b.nan
    IN  CASE op = eq -> ordered /\ a.n = b.n
          [] op = ne -> ordered /\ a.n # b.n
          [] op = lt -> ordered /\ a.n < b.n
          [] op = lte -> ordered /\ a.n <= b.n
          [] op = gt -> ordered /\ a.n > b.n
          [] op = gte -> ordered /\ a.n >= b.n
          [] OTHER -> FALSE

\* The operator switch over two float64: every comparison with a NaN is
\* false, but for !=.
FloatOk(op, a, b) ==
    LET ordered == ~a.nan /\ ~b.nan
    IN  CASE op = eq -> ordered /\ a.n = b.n
          [] op = ne -> ~(ordered /\ a.n = b.n)
          [] op = lt -> ordered /\ a.n < b.n
          [] op = lte -> ordered /\ a.n <= b.n
          [] op = gt -> ordered /\ a.n > b.n
          [] op = gte -> ordered /\ a.n >= b.n
          [] OTHER -> FALSE

compareFloat64(xv, cmp) ==
    LET term == toFloat64(cmp.term)
    IN  IF term.err # NoErr THEN term.err
        ELSE IF ~FloatOk(cmp.op, xv, term.v) THEN CmpFailed(cmp.op, xv, term.v)
        ELSE NoErr

RECURSIVE StrLess(_, _)
\* Go's < on strings: byte by byte, a proper prefix first.
StrLess(a, b) ==
    IF b = << >> THEN FALSE
    ELSE IF a = << >> THEN TRUE
    ELSE IF a[1] # b[1] THEN a[1] < b[1]
    ELSE StrLess(Tail(a), Tail(b))

StrOk(op, a, b) ==
    CASE op = eq -> a = b
      [] op = ne -> a # b
      [] op = lt -> StrLess(a, b)
      [] op = lte -> StrLess(a, b) \/ a = b
      [] op = gt -> StrLess(b, a)
      [] op = gte -> StrLess(b, a) \/ a = b
      [] OTHER -> FALSE

compareString(xv, cmp) ==
    LET term == toString(cmp.term)
    IN  IF term.err # NoErr THEN term.err
        ELSE IF ~StrOk(cmp.op, xv.s, term.v.s) THEN CmpFailed(cmp.op, xv, term.v)
        ELSE NoErr

\* TimeOk with <= as Before alone and >= as After alone.
TimeOkStrict(op, a, b) ==
    CASE op = eq -> a.n = b.n
      [] op = ne -> ~(a.n = b.n)
      [] op = lt -> a.n < b.n
      [] op = lte -> a.n < b.n
      [] op = gt -> a.n > b.n
      [] op = gte -> a.n > b.n
      [] OTHER -> FALSE

\* time.Time's Equal, Before and After compare instants, whatever the location.
TimeOk(op, a, b) ==
    CASE op = eq -> a.n = b.n
      [] op = ne -> ~(a.n = b.n)
      [] op = lt -> a.n < b.n
      [] op = lte -> a.n < b.n \/ a.n = b.n
      [] op = gt -> a.n > b.n
      [] op = gte -> a.n > b.n \/ a.n = b.n
      [] OTHER -> FALSE

compareTime(xv, cmp) ==
    LET term == toTime(cmp.term)
    IN  IF term.err # NoErr THEN term.err
        ELSE IF ~TimeOk(cmp.op, xv, term.v) THEN CmpFailed(cmp.op, xv, term.v)
        ELSE NoErr

\* "invalid operation `<op>` for values `<x>` and `<term>`"
Unsupported(op, xv, tv) == Err("invalid operation", op, "", "", xv, tv)

\* compareInterface with the test of eq and ne inverted.
compareInterfaceInverted(xv, cmp) ==
    IF cmp.op \notin {eq, ne} THEN Unsupported(cmp.op, xv, cmp.term)
    ELSE IF (cmp.op = ne) # equal(xv, cmp.term) THEN CmpFailed(cmp.op, xv, cmp.term)
    ELSE NoErr

\* compareInterface whose default case does not return: ok stays false.
compareInterfaceNoDefault(xv, cmp) ==
    IF cmp.op \notin {eq, ne} THEN CmpFailed(cmp.op, xv, cmp.term)
    ELSE IF (cmp.op = eq) # equal(xv, cmp.term) THEN CmpFailed(cmp.op, xv, cmp.term)
    ELSE NoErr

\* The call site spells the deep equality of reflect.go `equals`.
compareInterface(xv, cmp) ==
    IF cmp.op \notin {eq, ne} THEN Unsupported(cmp.op, xv, cmp.term)
    ELSE IF (cmp.op = eq) # equal(xv, cmp.term) THEN CmpFailed(cmp.op, xv, cmp.term)
    ELSE NoErr

compare(xv, cmp) ==
    IF cmp.isnil THEN Err("nil comparison field", 0, "", "", NilV, NilV)
    ELSE IF cmp.op < eq \/ cmp.op > gte THEN InvalidOp(cmp.op)
    ELSE CASE xv.k \in SignedKinds -> compareInt64(NumV("int64", xv.n), cmp)
           [] xv.k \in UnsignedKinds -> compareUint64(NumV("uint64", xv.n), cmp)
           [] xv.k \in FloatKinds ->
                compareFloat64([xv EXCEPT !.k = "float64", !.t = "float64"], cmp)
           [] xv.k = "string" -> compareString(StrV(xv.s), cmp)
           [] xv.k = "struct" /\ toTime(xv).err = NoErr -> compareTime(toTime(xv).v, cmp)
           [] OTHER -> compareInterface(xv, cmp)

\* ------------------------------------------------------ comparison units
\* What the unit built by each constructor returns when it is run.
Eq(xv, tv) ==
    LET c == newCmpField(eq, tv)
    IN  IF c.err # NoErr THEN c.err ELSE compare(xv, c.cmp)

Ne(xv, tv) ==
    LET c == newCmpField(ne, tv)
    IN  IF c.err # NoErr THEN c.err ELSE compare(xv, c.cmp)

Lt(xv, tv) ==
    LET c == newCmpField(lt, tv)
    IN  IF c.err # NoErr THEN c.err ELSE compare(xv, c.cmp)

Lte(xv, tv) ==
    LET c == newCmpField(lte, tv)
    IN  IF c.err # NoErr THEN c.err ELSE compare(xv, c.cmp)

Gt(xv, tv) ==
    LET c == newCmpField(gt, tv)
    IN  IF c.err # NoErr THEN c.err ELSE compare(xv, c.cmp)

Gte(xv, tv) ==
    LET c == newCmpField(gte, tv)
    IN  IF c.err # NoErr THEN c.err ELSE compare(xv, c.cmp)

\* ------------------------------------------------------------------ state
VARIABLES
    vfs,    \* Run: what each unit given to Run returns when invoked
    args,   \* Required: its arguments
    x,      \* the left operand of the comparison units, Between, In and NotIn
    term,   \* the comparison term of Eq, Ne, Lt, Lte, Gt and Gte
    lower,  \* Between: the lower bound
    upper,  \* Between: the upper bound
    elems,  \* In, NotIn: the candidates
    val,      \* Matches and the format units: the string to check
    pattern,  \* Matches: the regular expression
    required, \* Matches and the format units: whether val may be empty
    cur,    \* the unit that is running, "none" when none is
    i,      \* the position of the running unit's loop
    ret,    \* what each unit returned, Pending until it has run
    log     \* the calls made so far, in order, as <<unit, position>>

vars == <<vfs, args, x, term, lower, upper, elems, val, pattern, required, cur, i, ret, log>>
inputs == <<vfs, args, x, term, lower, upper, elems, val, pattern, required>>

\* The unit has not returned (yet).
Pending == Err("pending", 0, "", "", NilV, NilV)
\* The unit did not return: it panicked.
Panic == Err("panic", 0, "", "", NilV, NilV)

SeqsUpTo(S, max) == UNION {[1..len -> S] : len \in 0..max}
Returned == {u \in DOMAIN ret : ret[u] # Pending}
Finish(u, err) == ret' = [ret EXCEPT ![u] = err] /\ cur' = "none" /\ i' = 0

\* --------------------------------------------------------------------- Run
\* A unit returns nil or an error of its own, or panics.
UnitErr(name) == Err("unit", 0, "", name, NilV, NilV)
Outcomes == {NoErr, UnitErr("a"), UnitErr("b"), Panic}

InitRun ==
    /\ vfs \in SeqsUpTo(Outcomes, MaxVfs)
    /\ args = << >> /\ x = NilV /\ term = NilV /\ lower = NilV /\ upper = NilV
    /\ elems = << >>
    /\ val = << >> /\ pattern = << >> /\ required = FALSE
    /\ cur = "none" /\ i = 0 /\ log = << >>
    /\ ret = [u \in {"Run"} |-> Pending]

RunCall ==
    /\ cur = "none" /\ ret["Run"] = Pending
    /\ cur' = "Run" /\ i' = 1
    /\ UNCHANGED <<inputs, ret, log>>

\* RunLoop without the early return: the error is kept and the loop goes on.
RunLoopKeepsGoing ==
    /\ cur = "Run" /\ i <= Len(vfs)
    /\ log' = Append(log, <<"Run", i>>)
    /\ IF vfs[i] # NoErr /\ i = Len(vfs)
       THEN Finish("Run", vfs[i])
       ELSE i' = i + 1 /\ UNCHANGED <<ret, cur>>
    /\ UNCHANGED inputs

\* One iteration of the loop: vf() is invoked and its error, if any, returned.
RunLoop ==
    /\ cur = "Run" /\ i <= Len(vfs)
    /\ log' = Append(log, <<"Run", i>>)
    /\ IF vfs[i] # NoErr
       THEN Finish("Run", vfs[i])
       ELSE i' = i + 1 /\ UNCHANGED <<ret, cur>>
    /\ UNCHANGED inputs

RunReturn ==
    /\ cur = "Run" /\ i > Len(vfs)
    /\ Finish("Run", NoErr)
    /\ UNCHANGED <<inputs, log>>

NextRun == RunCall \/ RunLoop \/ RunReturn
SpecRun == InitRun /\ [][NextRun]_vars

\* C1: Run invokes the units in the order given, each at most once; once it
\* has ended, it invoked every unit up to and including the first one that
\* did not return nil and none after it, and it returned that unit's error
\* (the panic of a unit that panics is not caught); when every unit returned
\* nil, zero units included, all were invoked once and Run returned nil.
C1_RunFirstError ==
    LET failing == {j \in 1..Len(vfs) : vfs[j] # NoErr}
        first == CHOOSE j \in failing : \A l \in failing : j <= l
    IN  /\ \A p \in 1..Len(log) : log[p] = <<"Run", p>>
        /\ ret["Run"] # Pending =>
             IF failing = {}
             THEN ret["Run"] = NoErr /\ Len(log) = Len(vfs)
             ELSE ret["Run"] = vfs[first] /\ Len(log) = first

\* Run(ok, fail a, fail b) returned a's error after two invocations.
C1_Witness ==
    /\ vfs = <<NoErr, UnitErr("a"), UnitErr("b")>>
    /\ ret["Run"] = UnitErr("a")
    /\ log = <<<<"Run", 1>>, <<"Run", 2>>>>

\* ------------------------------------- Eq, Ne, Lt, Lte, Gt, Gte over (x, term)
CmpUnits == {"Eq", "Ne", "Lt", "Lte", "Gt", "Gte"}

InitCompare ==
    /\ x \in Values /\ term \in Values
    /\ vfs = << >> /\ args = << >> /\ lower = NilV /\ upper = NilV /\ elems = << >>
    /\ val = << >> /\ pattern = << >> /\ required = FALSE
    /\ cur = "none" /\ i = 0 /\ log = << >>
    /\ ret = [u \in CmpUnits |-> Pending]

\* The caller runs unit u, which returns err.
Call(u, err) ==
    /\ cur = "none" /\ ret[u] = Pending
    /\ Cardinality(Returned) < MaxCalls
    /\ ret' = [ret EXCEPT ![u] = err]
    /\ UNCHANGED <<inputs, cur, i, log>>

CallEq == Call("Eq", Eq(x, term))
CallNe == Call("Ne", Ne(x, term))
CallLt == Call("Lt", Lt(x, term))
CallLte == Call("Lte", Lte(x, term))
CallGt == Call("Gt", Gt(x, term))
CallGte == Call("Gte", Gte(x, term))

NextCompare == CallEq \/ CallNe \/ CallLt \/ CallLte \/ CallGt \/ CallGte
SpecCompare == InitCompare /\ [][NextCompare]_vars

\* -------------------------------------------- the vocabulary of the claims
\* The category of a value: what kind of comparison it calls for.
Category(v) ==
    CASE v.k \in SignedKinds -> "signed"
      [] v.k \in UnsignedKinds -> "unsigned"
      [] v.k \in FloatKinds -> "float"
      [] v.k = "string" -> "string"
      [] v.t = "time.Time" -> "timestamp"
      [] OTHER -> "structural"
\* The type compare converts the term to, for each category.
Target(cat) ==
    CASE cat = "signed" -> "int64" [] cat = "unsigned" -> "uint64"
      [] cat = "float" -> "float64" [] cat = "string" -> "string"
      [] cat = "timestamp" -> "time.Time" [] OTHER -> ""
OpOf(u) ==
    CASE u = "Eq" -> eq [] u = "Ne" -> ne [] u = "Lt" -> lt [] u = "Lte" -> lte
      [] u = "Gt" -> gt [] u = "Gte" -> gte
\* a sorts before b, as strings: at the first position where they differ a
\* has ended or holds the smaller byte.
LexLess(a, b) ==
    \E p \in 1..Len(b) :
        /\ \A j \in 1..(p - 1) : j <= Len(a) /\ a[j] = b[j]
        /\ (p = Len(a) + 1 \/ (p <= Len(a) /\ a[p] < b[p]))
\* The native order of two values of one category: "less", "equal",
\* "greater", or "unordered" when a NaN is involved.
Order(a, b) ==
    IF Category(a) = "string"
    THEN (IF LexLess(a.s, b.s) THEN "less" ELSE IF LexLess(b.s, a.s) THEN "greater"
          ELSE "equal")
    ELSE IF a.nan \/ b.nan THEN "unordered"
    ELSE IF a.n < b.n THEN "less" ELSE IF a.n > b.n THEN "greater" ELSE "equal"
\* The relation op holds between two values in the given order.
Holds(op, order) ==
    CASE op = eq -> order = "equal"
      [] op = ne -> order # "equal"
      [] op = lt -> order = "less"
      [] op = lte -> order \in {"less", "equal"}
      [] op = gt -> order = "greater"
      [] op = gte -> order \in {"greater", "equal"}

\* C2: when x and term are both signed integers, both unsigned integers,
\* both strings or both timestamps, each comparison unit returns nil exactly
\* when its operator's native relation holds between x and term, and
\* otherwise the comparison-failed error of its operator.
C2_NativeOrder ==
    \A u \in Returned :
        (Category(x) \in {"signed", "unsigned", "string", "timestamp"}
         /\ Category(term) = Category(x)) =>
            /\ ret[u] = NoErr <=> Holds(OpOf(u), Order(x, term))
            /\ ret[u] # NoErr =>
                 ret[u].kind = "comparison failed" /\ ret[u].op = OpOf(u)

\* Lte of two timestamps of one instant in different locations returned nil,
\* and Lt of them the comparison-failed error.
C2_Witness ==
    /\ x = TimeV(1, 1) /\ term = TimeV(1, 2)
    /\ ret["Lte"] = NoErr /\ ret["Lt"].kind = "comparison failed"

\* C3 as stated: whatever x and term are, Ne returns nil exactly when Eq
\* returns an error.
C3_DualityAnyTerm ==
    (ret["Eq"] # Pending /\ ret["Ne"] # Pending) =>
        (ret["Ne"] = NoErr <=> ret["Eq"] # NoErr)

\* C3 as amended: when x is structural, or term is of x's category, Ne
\* returns nil exactly when Eq returns an error; when x is an integer, float,
\* string or timestamp and term is not of its category, Eq and Ne both
\* return the conversion error.
C3_Duality ==
    (ret["Eq"] # Pending /\ ret["Ne"] # Pending) =>
        IF Category(x) = "structural" \/ Category(term) = Category(x)
        THEN ret["Ne"] = NoErr <=> ret["Eq"] # NoErr
        ELSE ret["Eq"].kind = "conversion" /\ ret["Ne"] = ret["Eq"]

\* Eq of two NaN failed and Ne of them returned nil.
C3_Witness ==
    /\ x = NaNV("float64") /\ term = NaNV("float64")
    /\ ret["Eq"].kind = "comparison failed" /\ ret["Ne"] = NoErr

\* A value DeepEqual and == find unequal to itself: a NaN, a non-nil func,
\* or a struct or array that holds one (not behind a pointer, slice or map,
\* which are equal to themselves by address).
RECURSIVE SelfUnequal(_)
SelfUnequal(v) ==
    \/ v.nan
    \/ v.k = "func" /\ ~v.isnil
    \/ v.k \in {"struct", "array"} /\ \E j \in 1..Len(v.e) : SelfUnequal(v.e[j])

C5_ConversionError ==
    \A u \in Returned :
        (Category(x) # "structural" /\ Category(term) # Category(x)) =>
            ret[u].kind = "conversion" /\ ret[u].cat = Target(Category(x))

\* Eq of an unsigned 1 and a signed 1, and Lt of them, returned the
\* conversion error.
C5_Witness ==
    /\ x = NumV("uint", 1) /\ term = NumV("int", 1)
    /\ ret["Eq"].kind = "conversion" /\ ret["Lt"].kind = "conversion"

\* C6: when x is structural, Eq returns nil exactly when x and term are
\* deeply equal and Ne exactly when they are not, each failing with its
\* comparison-failed error, and Lt, Lte, Gt and Gte return the invalid
\* operation error.
C6_Structural ==
    \A u \in Returned :
        Category(x) = "structural" =>
            IF u \in {"Eq", "Ne"}
            THEN /\ ret[u] \in {NoErr, CmpFailed(OpOf(u), x, term)}
                 /\ ret[u] = NoErr <=> ((u = "Eq") <=> DeepEqual(x, term))
            ELSE ret[u] = Unsupported(OpOf(u), x, term)

\* Eq of an empty slice and a nil slice failed; Gte of them is no operation.
C6_Witness ==
    /\ x = SliceV("[]string", 10, << >>) /\ term = NilOf("slice", "[]string")
    /\ ret["Eq"].kind = "comparison failed" /\ ret["Gte"].kind = "invalid operation"

\* ----------------------------------------------------------------- Between
InitBetween ==
    /\ x \in Values /\ lower \in Values /\ upper \in Values
    /\ vfs = << >> /\ args = << >> /\ term = NilV /\ elems = << >>
    /\ val = << >> /\ pattern = << >> /\ required = FALSE
    /\ cur = "none" /\ i = 0 /\ log = << >>
    /\ ret = [u \in {"Between"} |-> Pending]

\* BetweenLower that drops the error of the lower bound and goes on.
BetweenLowerGoesOn ==
    /\ cur = "none" /\ ret["Between"] = Pending
    /\ LET c == newCmpField(gte, lower)
       IN  IF c.err # NoErr
           THEN Finish("Between", c.err) /\ UNCHANGED log
           ELSE /\ log' = Append(log, <<"Between", 1>>)
                /\ cur' = "Between" /\ UNCHANGED <<ret, i>>
    /\ UNCHANGED inputs

\* The unit up to its first return: x is compared with the lower bound.
BetweenLower ==
    /\ cur = "none" /\ ret["Between"] = Pending
    /\ LET c == newCmpField(gte, lower)
           err == compare(x, c.cmp)
       IN  IF c.err # NoErr
           THEN Finish("Between", c.err) /\ UNCHANGED log
           ELSE /\ log' = Append(log, <<"Between", 1>>)
                /\ IF err # NoErr
                   THEN Finish("Between", err)
                   ELSE cur' = "Between" /\ UNCHANGED <<ret, i>>
    /\ UNCHANGED inputs

\* The rest of the unit: x is compared with the upper bound.
BetweenUpper ==
    /\ cur = "Between"
    /\ LET c == newCmpField(lte, upper)
       IN  IF c.err # NoErr
           THEN Finish("Between", c.err) /\ UNCHANGED log
           ELSE /\ log' = Append(log, <<"Between", 2>>)
                /\ Finish("Between", compare(x, c.cmp))
    /\ UNCHANGED inputs

NextBetween == BetweenLower \/ BetweenUpper
SpecBetween == InitBetween /\ [][NextBetween]_vars

\* x is at or above (gte), or at or below (lte), the bound in the native
\* order of x's category; no such order relates a structural x, or an x and
\* a bound of different categories.
Within(op, bound) ==
    /\ Category(x) # "structural"
    /\ Category(bound) = Category(x)
    /\ Holds(op, Order(x, bound))

\* C7: Between returns nil exactly when lower <= x and x <= upper; it
\* compares x with the lower bound first, and when that comparison fails it
\* returns that comparison's error without comparing x with the upper bound.
C7_Between ==
    ret["Between"] # Pending =>
        /\ ret["Between"] = NoErr <=> (Within(gte, lower) /\ Within(lte, upper))
        /\ log[1] = <<"Between", 1>>
        /\ IF Within(gte, lower)
           THEN log = <<<<"Between", 1>>, <<"Between", 2>>>>
           ELSE /\ log = <<<<"Between", 1>>>>
                /\ ret["Between"] = Gte(x, lower)
                /\ ret["Between"].kind \in
                       {"conversion", "comparison failed", "invalid operation"}
                /\ ret["Between"].kind # "conversion" => ret["Between"].op = gte

\* Between(0, 1, "a"): below the lower bound, the upper bound of another
\* category; the error is that of >= 1 and the upper bound was not compared.
C7_Witness ==
    /\ x = NumV("int", 0) /\ lower = NumV("int", 1) /\ upper = StrV(<<97>>)
    /\ ret["Between"] = CmpFailed(gte, NumV("int64", 0), NumV("int64", 1))
    /\ log = <<<<"Between", 1>>>>

\* -------------------------------------------------------------- In, NotIn
\* The candidates are drawn from values of several categories.
Candidates ==
    {NilV, NumV("int", 0), NumV("int", MaxInt), NumV("uint", MaxInt), StrV(<<97>>),
     NumV("float64", MaxInt), NaNV("float64"), TimeV(1, 1),
     NilOf("slice", "[]string"), SliceV("[]string", 11, <<StrV(<< >>)>>)}
\* elems as fmt prints it: the []interface{} of the variadic call.
ElemsV(es) == SliceV("[]interface {}", 80, es)
\* "`in` comparison failed: `<x>` not in `<elems>`"
InFailed(xv, es) == Err("in", 0, "", "", xv, ElemsV(es))
\* "`not in` comparison failed: `<x>` in `<elems>`"
NotInFailed(xv, es) == Err("not in", 0, "", "", xv, ElemsV(es))

InitIn ==
    /\ x \in Values /\ elems \in SeqsUpTo(Candidates, MaxElems)
    /\ vfs = << >> /\ args = << >> /\ term = NilV /\ lower = NilV /\ upper = NilV
    /\ val = << >> /\ pattern = << >> /\ required = FALSE
    /\ cur = "none" /\ i = 0 /\ log = << >>
    /\ ret = [u \in {"In", "NotIn"} |-> Pending]

InCall ==
    /\ cur = "none" /\ ret["In"] = Pending
    /\ cur' = "In" /\ i' = 1
    /\ UNCHANGED <<inputs, ret, log>>

\* InLoop that returns the error of a candidate's comparison when it is not
\* a comparison-failed error.
InLoopReturnsError ==
    /\ cur = "In" /\ i <= Len(elems)
    /\ LET c == newCmpField(eq, elems[i])
           err == compare(x, c.cmp)
       IN  IF c.err # NoErr
           THEN Finish("In", c.err) /\ UNCHANGED log
           ELSE /\ log' = Append(log, <<"In", i>>)
                /\ IF err = NoErr \/ err.kind # "comparison failed"
                   THEN Finish("In", err)
                   ELSE i' = i + 1 /\ UNCHANGED <<ret, cur>>
    /\ UNCHANGED inputs

\* One iteration of In's loop: x is compared with elems[i].
InLoop ==
    /\ cur = "In" /\ i <= Len(elems)
    /\ LET c == newCmpField(eq, elems[i])
       IN  IF c.err # NoErr
           THEN Finish("In", c.err) /\ UNCHANGED log
           ELSE /\ log' = Append(log, <<"In", i>>)
                /\ IF compare(x, c.cmp) = NoErr
                   THEN Finish("In", NoErr)
                   ELSE i' = i + 1 /\ UNCHANGED <<ret, cur>>
    /\ UNCHANGED inputs

InFail ==
    /\ cur = "In" /\ i > Len(elems)
    /\ Finish("In", InFailed(x, elems))
    /\ UNCHANGED <<inputs, log>>

NotInCall ==
    /\ cur = "none" /\ ret["NotIn"] = Pending
    /\ cur' = "NotIn" /\ i' = 1
    /\ UNCHANGED <<inputs, ret, log>>

\* NotInLoop that returns the error of a candidate's comparison when it is
\* not a comparison-failed error.
NotInLoopReturnsError ==
    /\ cur = "NotIn" /\ i <= Len(elems)
    /\ LET c == newCmpField(eq, elems[i])
           err == compare(x, c.cmp)
       IN  IF c.err # NoErr
           THEN Finish("NotIn", c.err) /\ UNCHANGED log
           ELSE /\ log' = Append(log, <<"NotIn", i>>)
                /\ IF err = NoErr
                   THEN Finish("NotIn", NotInFailed(x, elems))
                   ELSE IF err.kind # "comparison failed"
                   THEN Finish("NotIn", err)
                   ELSE i' = i + 1 /\ UNCHANGED <<ret, cur>>
    /\ UNCHANGED inputs

\* One iteration of NotIn's loop: x is compared with elems[i].
NotInLoop ==
    /\ cur = "NotIn" /\ i <= Len(elems)
    /\ LET c == newCmpField(eq, elems[i])
       IN  IF c.err # NoErr
           THEN Finish("NotIn", c.err) /\ UNCHANGED log
           ELSE /\ log' = Append(log, <<"NotIn", i>>)
                /\ IF compare(x, c.cmp) = NoErr
                   THEN Finish("NotIn", NotInFailed(x, elems))
                   ELSE i' = i + 1 /\ UNCHANGED <<ret, cur>>
    /\ UNCHANGED inputs

NotInReturn ==
    /\ cur = "NotIn" /\ i > Len(elems)
    /\ Finish("NotIn", NoErr)
    /\ UNCHANGED <<inputs, log>>

NextIn == InCall \/ InLoop \/ InFail \/ NotInCall \/ NotInLoop \/ NotInReturn
SpecIn == InitIn /\ [][NextIn]_vars

\* Some candidate equals x under the eq comparison.
SomeEq == \E j \in 1..Len(elems) : Eq(x, elems[j]) = NoErr

\* C8: In returns nil exactly when Eq(x, c) returns nil for some candidate
\* c, NotIn exactly when it does for none; so over the same x and candidates
\* NotIn returns nil exactly when In returns an error.
C8_InNotIn ==
    /\ ret["In"] # Pending => (ret["In"] = NoErr <=> SomeEq)
    /\ ret["NotIn"] # Pending => (ret["NotIn"] = NoErr <=> ~SomeEq)
    /\ (ret["In"] # Pending /\ ret["NotIn"] # Pending) =>
          (ret["NotIn"] = NoErr <=> ret["In"] # NoErr)

\* In(1, "a", 1) returned nil and NotIn(1, "a", 1) its error.
C8_Witness ==
    /\ x = NumV("int", 1) /\ elems = <<StrV(<<97>>), NumV("int", 1)>>
    /\ ret["In"] = NoErr /\ ret["NotIn"] = NotInFailed(x, elems)

\* ---------------------------------------------------------------- Required
InitRequired ==
    /\ args \in SeqsUpTo(Values, MaxArgs)
    /\ vfs = << >> /\ x = NilV /\ term = NilV /\ lower = NilV /\ upper = NilV
    /\ elems = << >>
    /\ val = << >> /\ pattern = << >> /\ required = FALSE
    /\ cur = "none" /\ i = 0 /\ log = << >>
    /\ ret = [u \in {"Required"} |-> Pending]

RequiredCall ==
    /\ cur = "none" /\ ret["Required"] = Pending
    /\ cur' = "Required" /\ i' = 1
    /\ UNCHANGED <<inputs, ret, log>>

\* One iteration of the loop: isEmpty(arg), whose panic nothing recovers.
RequiredLoop ==
    /\ cur = "Required" /\ i <= Len(args)
    /\ log' = Append(log, <<"Required", i>>)
    /\ CASE isEmpty(args[i]) = "panic" -> Finish("Required", Panic)
         [] isEmpty(args[i]) = "true" -> Finish("Required", errEmpty)
         [] OTHER -> i' = i + 1 /\ UNCHANGED <<ret, cur>>
    /\ UNCHANGED inputs

RequiredReturn ==
    /\ cur = "Required" /\ i > Len(args)
    /\ Finish("Required", NoErr)
    /\ UNCHANGED <<inputs, log>>

NextRequired == RequiredCall \/ RequiredLoop \/ RequiredReturn
SpecRequired == InitRequired /\ [][NextRequired]_vars

\* C9: Required examines its arguments in order; once it has ended it
\* returned the "empty argument" error exactly when some argument is empty
\* under isEmpty, having examined the arguments up to the first such one and
\* no further, and it returned nil when no argument is empty.
C9_Required ==
    LET empties == {j \in 1..Len(args) : isEmpty(args[j]) = "true"}
    IN  /\ \A p \in 1..Len(log) : log[p] = <<"Required", p>>
        /\ ret["Required"] # Pending =>
             IF empties = {}
             THEN ret["Required"] = NoErr /\ Len(log) = Len(args)
             ELSE /\ ret["Required"] = errEmpty
                  /\ Len(log) = CHOOSE j \in empties : \A l \in empties : j <= l

\* What the claim calls empty: nil, a sequence, mapping or string of length
\* zero, a pointer to an empty value at any depth, or a value deeply equal to
\* the zero value of its type.
RECURSIVE ClaimedEmpty(_)
ClaimedEmpty(v) ==
    \/ v = NilV
    \/ v.k \in {"array", "chan", "map", "slice", "string"} /\ VLen(v) = 0
    \/ v.k \in {"interface", "ptr"} /\ ~v.isnil /\ ClaimedEmpty(v.e[1])
    \/ DeepEqual(v, Zero(v))

\* C10: isEmpty reports an argument empty exactly when it is nil, of length
\* zero, a pointer to an empty value, or equal to the zero value of its type.
C10_IsEmpty ==
    \A p \in 1..Len(log) :
        isEmpty(args[log[p][2]]) = "true" <=> ClaimedEmpty(args[log[p][2]])

\* C11: a unit that is run returns nil or an error: it never panics. Stated
\* of Required, whose arguments include nil pointers and pointers to them.
C11_NoPanic == \A u \in DOMAIN ret : ret[u] # Panic

\* ------------------------------------------- helpers of the string units
\* unicode.IsSpace, of the bytes the strings here are made of: tab, space.
Spaces == {9, 32}

RECURSIVE TrimLeft(_)
TrimLeft(str) ==
    IF str # << >> /\ Head(str) \in Spaces THEN TrimLeft(Tail(str)) ELSE str
RECURSIVE TrimRight(_)
TrimRight(str) ==
    IF str # << >> /\ str[Len(str)] \in Spaces
    THEN TrimRight(SubSeq(str, 1, Len(str) - 1))
    ELSE str
\* strings.TrimSpace
TrimSpace(str) == TrimRight(TrimLeft(str))

\* isEmptyStr that does not trim.
isEmptyStrUntrimmed(field) == field = << >>

isEmptyStr(field) == TrimSpace(field) = << >>

\* strings.Map dropping the spaces
stripSpaces(str) == SelectSeq(str, LAMBDA c : c \notin Spaces)

\* errors.New(message), the error of a value that is required and empty.
EmptyMsg(message) == Err("empty", 0, "", message, NilV, NilV)
\* The messages the units pass are literals; those that trim to "".
BlankMessages == {"", " "}

requiredErr(req, message) ==
    IF ~req THEN NoErr
    ELSE IF message \notin BlankMessages THEN EmptyMsg(message)
    ELSE errEmpty

\* ----------------------------------------------------------------- regexp
\* Patterns are made of the letter a and of parentheses: regexp compiles
\* one exactly when its parentheses are balanced, and a string matches it
\* when it contains the pattern's letters, in a row.
RECURSIVE Balanced(_, _)
Balanced(pat, open) ==
    IF pat = << >> THEN open = 0
    ELSE IF Head(pat) = 40 THEN Balanced(Tail(pat), open + 1)
    ELSE IF Head(pat) = 41 THEN open > 0 /\ Balanced(Tail(pat), open - 1)
    ELSE Balanced(Tail(pat), open)
Contains(str, sub) ==
    \E from \in 0..(Len(str) - Len(sub)) : SubSeq(str, from + 1, from + Len(sub)) = sub
\* regexp.MatchString(pattern, val): [ok |-> matched, err |-> did not compile]
MatchString(pat, str) ==
    IF ~Balanced(pat, 0) THEN [ok |-> FALSE, err |-> TRUE]
    ELSE [ok |-> Contains(str, SelectSeq(pat, LAMBDA c : c \notin {40, 41})),
          err |-> FALSE]

\* "invalid pattern `<pattern>`"
InvalidPattern(pat) == Err("invalid pattern", 0, "", "", NilV, StrV(pat))
\* "`<val>` does not match pattern `<pattern>`"
Mismatch(str, pat) == Err("pattern mismatch", 0, "", "", StrV(str), StrV(pat))
\* "invalid <what> `<val>`"
FormatInvalid(what, str) == Err("invalid format", 0, "", what, StrV(str), NilV)

\* ------------------------------------------ Matches and the format units
MaxValLen == 2
MaxPatLen == 2
FormatUnits == {"Email", "EmailList", "URL", "IBAN", "VAT", "IP", "MAC"}

InitMatches ==
    /\ val \in SeqsUpTo({32, 97, 98}, MaxValLen)
    /\ pattern \in SeqsUpTo({40, 41, 97}, MaxPatLen)
    /\ required \in BOOLEAN
    /\ vfs = << >> /\ args = << >> /\ x = NilV /\ term = NilV /\ lower = NilV
    /\ upper = NilV /\ elems = << >>
    /\ cur = "none" /\ i = 0 /\ log = << >>
    /\ ret = [u \in {"Matches"} \cup FormatUnits |-> Pending]

\* The unit up to its first return: the test of an empty val.
MatchesCall ==
    /\ cur = "none" /\ Returned = {}
    /\ IF isEmptyStr(val)
       THEN Finish("Matches", requiredErr(required, "match term cannot be empty"))
       ELSE cur' = "Matches" /\ UNCHANGED <<ret, i>>
    /\ UNCHANGED <<inputs, log>>

\* The rest of the unit: the pattern is compiled and applied.
MatchesPattern ==
    /\ cur = "Matches"
    /\ log' = Append(log, <<"Matches", 1>>)
    /\ LET m == MatchString(pattern, val)
       IN  IF m.err THEN Finish("Matches", InvalidPattern(pattern))
           ELSE IF ~m.ok THEN Finish("Matches", Mismatch(val, pattern))
           ELSE Finish("Matches", NoErr)
    /\ UNCHANGED inputs

\* A format unit: the test of an empty str, then the format's own test of
\* str (net/mail, net, or a regular expression of the package), which
\* accepts it or not.
Format(u, str, message, what) ==
    /\ cur = "none" /\ Returned = {}
    /\ IF isEmptyStr(str)
       THEN ret' = [ret EXCEPT ![u] = requiredErr(required, message)] /\ UNCHANGED log
       ELSE /\ log' = Append(log, <<u, 1>>)
            /\ \E ok \in BOOLEAN :
                 ret' = [ret EXCEPT ![u] = IF ok THEN NoErr ELSE FormatInvalid(what, str)]
    /\ UNCHANGED <<inputs, cur, i>>

CallEmail == Format("Email", val, "email address cannot be empty", "email address")
\* The list is stripped of its spaces first; its error names the first
\* address rejected, here the stripped list.
CallEmailList ==
    Format("EmailList", stripSpaces(val), "email address list cannot be empty",
           "email address")
CallURL == Format("URL", val, "URL cannot be empty", "URL")
CallIBAN == Format("IBAN", val, "IBAN cannot be empty", "IBAN")
CallVAT == Format("VAT", val, "VAT number cannot be empty", "VAT number")
CallIP == Format("IP", val, "IP address cannot be empty", "IP address")
CallMAC == Format("MAC", val, "MAC address cannot be empty", "mac address")

NextMatches ==
    \/ MatchesCall \/ MatchesPattern
    \/ CallEmail \/ CallEmailList \/ CallURL \/ CallIBAN \/ CallVAT \/ CallIP \/ CallMAC
SpecMatches == InitMatches /\ [][NextMatches]_vars

\* val is empty: it holds nothing but white space.
Blank == \A j \in 1..Len(val) : val[j] \in Spaces

\* C12: Matches of an empty val returns nil when required is false and an
\* empty-argument error when it is true, without compiling the pattern; of
\* any other val it compiles the pattern and returns the invalid-pattern
\* error when that fails, the mismatch error when val does not match, and nil
\* otherwise. Each format unit answers an empty val the same way before its
\* format test, and any other val by nil or its invalid-format error.
C12_Matches ==
    /\ ret["Matches"] # Pending =>
         IF Blank
         THEN /\ log = << >>
              /\ IF required THEN ret["Matches"].kind = "empty"
                 ELSE ret["Matches"] = NoErr
         ELSE /\ log = <<<<"Matches", 1>>>>
              /\ ret["Matches"] =
                   IF MatchString(pattern, val).err THEN InvalidPattern(pattern)
                   ELSE IF ~MatchString(pattern, val).ok THEN Mismatch(val, pattern)
                   ELSE NoErr
    /\ \A u \in FormatUnits :
         ret[u] # Pending =>
            IF Blank
            THEN /\ log = << >>
                 /\ IF required THEN ret[u].kind = "empty" ELSE ret[u] = NoErr
            ELSE /\ log = <<<<u, 1>>>>
                 /\ ret[u] = NoErr \/ ret[u].kind = "invalid format"

\* Matches(" ", "(", true): the empty-argument error, the malformed pattern
\* never compiled.
C12_Witness ==
    /\ val = <<32>> /\ pattern = <<40>> /\ required
    /\ ret["Matches"] = EmptyMsg("match term cannot be empty")
    /\ log = << >>

\* The candidates unit u compared x with, in the order it did.
Compared(u) == SelectSeq(log, LAMBDA call : call[1] = u)
\* The positions of the candidates x equals.
Matching == {j \in 1..Len(elems) : Eq(x, elems[j]) = NoErr}
\* Where a scan that stops at the first match ends.
ScanEnd ==
    IF Matching = {} THEN Len(elems) ELSE CHOOSE j \in Matching : \A l \in Matching : j <= l

\* C13: once In or NotIn has returned, it compared x with the candidates in
\* order up to the first one x equals, or with all when there is none: a
\* candidate of another category, or a different one, does not end the scan.
\* In returned nil at that first match and NotIn its error, and without a
\* match In returned its error and NotIn nil; neither returned a candidate's
\* conversion error.
C13_ScanGoesOn ==
    \A u \in Returned :
        /\ Compared(u) = [p \in 1..ScanEnd |-> <<u, p>>]
        /\ ret[u].kind # "conversion"
        /\ ret[u] = IF (u = "In") <=> (Matching # {}) THEN NoErr
                    ELSE IF u = "In" THEN InFailed(x, elems)
                    ELSE NotInFailed(x, elems)

\* In(1, nil, "a") went through both candidates and returned its own error,
\* and NotIn(1, nil, "a") returned nil.
C13_Witness ==
    /\ x = NumV("int", 1) /\ elems = <<NilV, StrV(<<97>>)>>
    /\ Compared("In") = <<<<"In", 1>>, <<"In", 2>>>>
    /\ ret["In"] = InFailed(x, elems)
    /\ ret["NotIn"] = NoErr

====
